---- MODULE Spec2Model ----
(***************************************************************************)
(* A model of the Styled string type of styled_str/styled.py: a str        *)
(* subclass that keeps the display text in `data` and a list of ANSI SGR   *)
(* codes in `_codes`.                                                       *)
(*                                                                         *)
(* Texts are sequences of one-character strings.  Python values are        *)
(* records [t, s, n, m, l]: t is the type tag, s the text of a str (or the *)
(* data of a Styled), n the value of an int or bool (or the id of the      *)
(* _codes list of a Styled), m the second bound of a slice, l the items of *)
(* a tuple or list argument.  The _codes lists live in `heap`, so that two *)
(* values holding the same list object are told apart from two values      *)
(* holding equal lists.                                                     *)
(***************************************************************************)
EXTENDS Integers, Sequences, FiniteSets, TLC

VARIABLES pc, v, recv, heap, op, arg, res, steps

vars == <<pc, v, recv, heap, op, arg, res, steps>>

-----------------------------------------------------------------------------
(* Python values *)

Py(t, s, n, m, l) == [t |-> t, s |-> s, n |-> n, m |-> m, l |-> l]
PyStr(s) == Py("str", s, 0, 0, <<>>)
PyInt(n) == Py("int", <<>>, n, 0, <<>>)
PyBool(b) == Py("bool", <<>>, IF b THEN 1 ELSE 0, 0, <<>>)
PyNone == Py("none", <<>>, 0, 0, <<>>)
PyTuple(items) == Py("tuple", <<>>, 0, 0, items)
PyList(items) == Py("list", <<>>, 0, 0, items)
PySlice(lo, hi) == Py("slice", <<>>, lo, hi, <<>>)
PyStyled(data, id) == Py("styled", data, id, 0, <<>>)
PyError(name) == Py("error", <<name>>, 0, 0, <<>>)

IsError(x) == x.t = "error"
\* isinstance(x, str): Styled subclasses str
IsStr(x) == x.t \in {"str", "styled"}
IsStyled(x) == x.t = "styled"
\* Python truth value of a value used as a condition
Truthy(x) ==
    CASE x.t = "none" -> FALSE
      [] x.t = "str" -> x.s # <<>>
      [] x.t = "styled" -> x.s # <<>>
      [] x.t = "int" -> x.n # 0
      [] x.t = "bool" -> x.n # 0
      [] x.t \in {"tuple", "list"} -> x.l # <<>>
      [] OTHER -> TRUE

-----------------------------------------------------------------------------
(* Characters and the builtin str operations the class delegates to *)

ESC == "ESC"
FIELD == "{}"

LowerChars == <<"a","b","c","d","e","f","g","h","i","j","k","l","m",
                "n","o","p","q","r","s","t","u","v","w","x","y","z">>
UpperChars == <<"A","B","C","D","E","F","G","H","I","J","K","L","M",
                "N","O","P","Q","R","S","T","U","V","W","X","Y","Z">>
Digits == <<"0","1","2","3","4","5","6","7","8","9">>
\* the characters of the model in code point order
CodePoints == <<ESC, " ", "+", "-", ".">> \o Digits \o <<";", "<", ">">>
              \o UpperChars \o <<"[", "^">> \o LowerChars

IndexOf(seq, x) == CHOOSE i \in 1..Len(seq) : seq[i] = x
InSeq(seq, x) == \E i \in 1..Len(seq) : seq[i] = x
Ord(c) == IndexOf(CodePoints, c)

IsSpace(c) == c = " "
IsDigit(c) == InSeq(Digits, c)
UpperChar(c) == IF InSeq(LowerChars, c) THEN UpperChars[IndexOf(LowerChars, c)] ELSE c
LowerChar(c) == IF InSeq(UpperChars, c) THEN LowerChars[IndexOf(UpperChars, c)] ELSE c

str_upper(s) == [i \in 1..Len(s) |-> UpperChar(s[i])]
str_lower(s) == [i \in 1..Len(s) |-> LowerChar(s[i])]

RECURSIVE str_lstrip(_)
str_lstrip(s) == IF s # <<>> /\ IsSpace(Head(s)) THEN str_lstrip(Tail(s)) ELSE s
RECURSIVE str_rstrip(_)
str_rstrip(s) ==
    IF s # <<>> /\ IsSpace(s[Len(s)]) THEN str_rstrip(SubSeq(s, 1, Len(s) - 1)) ELSE s
str_strip(s) == str_rstrip(str_lstrip(s))

Fill(c, n) == [i \in 1..n |-> c]

\* str.center: left = marg/2 + (marg & width & 1)
str_center(s, width) ==
    IF Len(s) >= width THEN s
    ELSE LET marg == width - Len(s)
             left == (marg \div 2) + (IF marg % 2 = 1 /\ width % 2 = 1 THEN 1 ELSE 0)
         IN Fill(" ", left) \o s \o Fill(" ", marg - left)

\* str.zfill: zeros go after a leading sign
str_zfill(s, width) ==
    IF Len(s) >= width THEN s
    ELSE IF s # <<>> /\ Head(s) \in {"+", "-"}
         THEN <<Head(s)>> \o Fill("0", width - Len(s)) \o Tail(s)
         ELSE Fill("0", width - Len(s)) \o s

StartsWith(s, p) == Len(p) <= Len(s) /\ SubSeq(s, 1, Len(p)) = p

RECURSIVE str_replace(_, _, _)
str_replace(s, old, new) ==
    IF old = <<>>
    THEN IF s = <<>> THEN new
         ELSE new \o <<Head(s)>> \o str_replace(Tail(s), old, new)
    ELSE IF s = <<>> THEN <<>>
    ELSE IF StartsWith(s, old)
         THEN new \o str_replace(SubSeq(s, Len(old) + 1, Len(s)), old, new)
         ELSE <<Head(s)>> \o str_replace(Tail(s), old, new)

RECURSIVE str_mul(_, _)
str_mul(s, n) == IF n <= 0 THEN <<>> ELSE s \o str_mul(s, n - 1)

\* s[key] for an int key (IndexError out of range) or a slice key (clamped)
Clamp(i, len) ==
    IF i < 0 THEN (IF i + len < 0 THEN 0 ELSE i + len)
    ELSE (IF i > len THEN len ELSE i)
str_getitem(s, key) ==
    IF key.t = "int"
    THEN LET i == IF key.n < 0 THEN key.n + Len(s) ELSE key.n
         IN IF i < 0 \/ i >= Len(s) THEN PyError("IndexError")
            ELSE PyStr(<<s[i + 1]>>)
    ELSE IF key.t = "slice"
    THEN PyStr(SubSeq(s, Clamp(key.n, Len(s)) + 1, Clamp(key.m, Len(s))))
    ELSE PyError("TypeError")

\* lexicographic order by code point
RECURSIVE str_lt(_, _)
str_lt(a, b) ==
    IF b = <<>> THEN FALSE
    ELSE IF a = <<>> THEN TRUE
    ELSE IF Head(a) = Head(b) THEN str_lt(Tail(a), Tail(b))
    ELSE Ord(Head(a)) < Ord(Head(b))
str_le(a, b) == a = b \/ str_lt(a, b)

\* hash(str): a function of the characters alone
HashMod == 2 ^ 16
RECURSIVE str_hash(_)
str_hash(s) ==
    IF s = <<>> THEN 0
    ELSE (31 * str_hash(SubSeq(s, 1, Len(s) - 1)) + Ord(s[Len(s)])) % HashMod

\* decimal digits of a natural number, then str(int)
RECURSIVE NatToStr(_)
NatToStr(n) == IF n < 10 THEN <<Digits[n + 1]>> ELSE NatToStr(n \div 10) \o <<Digits[(n % 10) + 1]>>
IntToStr(n) == IF n < 0 THEN <<"-">> \o NatToStr(-n) ELSE NatToStr(n)

RECURSIVE DigitsToNat(_)
DigitsToNat(s) ==
    IF s = <<>> THEN 0
    ELSE 10 * DigitsToNat(SubSeq(s, 1, Len(s) - 1)) + (IndexOf(Digits, s[Len(s)]) - 1)
AllDigits(s) == s # <<>> /\ \A i \in 1..Len(s) : IsDigit(s[i])

\* int(str): surrounding whitespace dropped, an optional sign, then digits
int_of_str(s) ==
    LET t == str_strip(s)
        signed == t # <<>> /\ Head(t) \in {"+", "-"}
        body == IF signed THEN Tail(t) ELSE t
    IN IF ~AllDigits(body) THEN PyError("ValueError")
       ELSE IF signed /\ Head(t) = "-" THEN PyInt(-DigitsToNat(body))
       ELSE PyInt(DigitsToNat(body))

\* str(x) for the values that reach a join or a format
Str(x) ==
    CASE x.t = "str" -> x.s
      [] x.t = "int" -> IntToStr(x.n)
      [] x.t = "bool" -> IF x.n = 1 THEN <<"T","r","u","e">> ELSE <<"F","a","l","s","e">>
      [] x.t = "none" -> <<"N","o","n","e">>
      [] OTHER -> <<"?">>

\* str.format with automatic field numbering: the k-th field takes str(args[k]),
\* surplus arguments are ignored, a missing one is an IndexError
FieldCount(tmpl) == Cardinality({i \in 1..Len(tmpl) : tmpl[i] = FIELD})
RECURSIVE Subst(_, _, _)
Subst(tmpl, args, k) ==
    IF tmpl = <<>> THEN <<>>
    ELSE IF Head(tmpl) = FIELD THEN Str(args[k]) \o Subst(Tail(tmpl), args, k + 1)
    ELSE <<Head(tmpl)>> \o Subst(Tail(tmpl), args, k)
str_format(tmpl, args) ==
    IF FieldCount(tmpl) > Len(args) THEN PyError("IndexError")
    ELSE PyStr(Subst(tmpl, args, 1))

\* str.__format__(spec) for specs of the shape [[fill]align][width][.precision][s]
Aligns == {"<", ">", "^"}
RECURSIVE TakeDigits(_)
TakeDigits(s) ==
    IF s # <<>> /\ IsDigit(Head(s)) THEN <<Head(s)>> \o TakeDigits(Tail(s)) ELSE <<>>
Drop(s, n) == SubSeq(s, n + 1, Len(s))
Pad(s, fill, align, width) ==
    IF Len(s) >= width THEN s
    ELSE LET marg == width - Len(s)
         IN CASE align = "<" -> s \o Fill(fill, marg)
              [] align = ">" -> Fill(fill, marg) \o s
              [] OTHER -> Fill(fill, marg \div 2) \o s \o Fill(fill, marg - (marg \div 2))
str___format__(s, spec) ==
    LET hasFill == Len(spec) >= 2 /\ spec[2] \in Aligns
        hasAlign == hasFill \/ (Len(spec) >= 1 /\ spec[1] \in Aligns)
        fill == IF hasFill THEN spec[1] ELSE " "
        align == IF hasFill THEN spec[2] ELSE IF hasAlign THEN spec[1] ELSE "<"
        r1 == IF hasFill THEN Drop(spec, 2) ELSE IF hasAlign THEN Drop(spec, 1) ELSE spec
        wd == TakeDigits(r1)
        r2 == Drop(r1, Len(wd))
        hasPrec == r2 # <<>> /\ Head(r2) = "."
        pd == IF hasPrec THEN TakeDigits(Tail(r2)) ELSE <<>>
        r3 == IF hasPrec THEN Drop(r2, 1 + Len(pd)) ELSE r2
        r4 == IF r3 # <<>> /\ Head(r3) = "s" THEN Tail(r3) ELSE r3
        cut == IF hasPrec /\ DigitsToNat(pd) < Len(s) THEN SubSeq(s, 1, DigitsToNat(pd)) ELSE s
    IN IF r4 # <<>> \/ (hasPrec /\ pd = <<>>) THEN PyError("ValueError")
       ELSE PyStr(Pad(cut, fill, align, DigitsToNat(wd)))

-----------------------------------------------------------------------------
(* class Styled: class attributes *)

BASE_FG == 30
BASE_BG == 40
BASE_BRIGHT_INC == 60

COLORS == << <<"b","l","a","c","k">>, <<"r","e","d">>, <<"g","r","e","e","n">>,
             <<"y","e","l","l","o","w">>, <<"b","l","u","e">>,
             <<"m","a","g","e","n","t","a">>, <<"c","y","a","n">>,
             <<"w","h","i","t","e">> >>

STYLES == << <<"n","o","n","e">>, <<"b","o","l","d">>, <<"f","a","i","n","t">>,
             <<"i","t","a","l","i","c">>,
             <<"u","n","d","e","r","l","i","n","e","d">>, <<"b","l","i","n","k">>,
             <<"b","l","i","n","k","2">>, <<"n","e","g","a","t","i","v","e">>,
             <<"c","o","n","c","e","a","l","e","d">>,
             <<"c","r","o","s","s","e","d">> >>

TEMPLATE == <<ESC, "[", FIELD, "m", FIELD, ESC, "[", "0", "m">>

DEFAULT == <<"d","e","f","a","u","l","t">>

-----------------------------------------------------------------------------
(* class Styled: static methods *)

\* join with the separator left out
RECURSIVE join_nosep(_)
join_nosep(args) == IF args = <<>> THEN <<>> ELSE Str(args[1]) \o join_nosep(Tail(args))

\* ';'.join(str(arg) for arg in args)
RECURSIVE join(_)
join(args) ==
    IF args = <<>> THEN <<>>
    ELSE IF Len(args) = 1 THEN Str(args[1])
    ELSE Str(args[1]) \o <<";">> \o join(Tail(args))

\* A name that the module does not define: looking it up raises NameError
UndefinedGlobal(name) == PyError("NameError")

\* _color_code: the code of a colour spec, None when no branch takes the spec
color_code(spec, base) ==
    LET sp == IF IsStr(spec) THEN PyStr(str_lower(str_strip(spec.s))) ELSE spec
    IN IF sp = PyStr(DEFAULT) THEN PyStr(join(<<PyInt(base + 9)>>))
       ELSE IF sp.t = "str" /\ InSeq(COLORS, sp.s)
            THEN PyStr(join(<<PyInt(base + (IndexOf(COLORS, sp.s) - 1))>>))
       ELSE IF sp.t \in {"int", "bool"} /\ 0 <= sp.n /\ sp.n <= 255
            THEN PyStr(join(<<PyInt(base + 8), PyInt(5), sp>>))
       ELSE IF sp.t \in {"tuple", "list"} THEN UndefinedGlobal("_join")
       ELSE PyNone

-----------------------------------------------------------------------------
(* class Styled: construction *)

\* An instance: the attributes set on it so far
Instance(attrs, data, codes) == [attrs |-> attrs, data |-> data, codes |-> codes]

\* __new__ without its codes parameter: a call that passes codes is a TypeError
Styled_new_nocodes(data, codes) ==
    IF codes # PyNone
    THEN [err |-> PyError("TypeError"), obj |-> Instance({}, <<>>, <<>>)]
    ELSE [err |-> PyNone, obj |-> Instance({}, <<>>, <<>>)]

\* __new__: the str part is built from data; _codes is set only for a non-empty codes
Styled_new(data, codes) ==
    IF Truthy(codes)
    THEN [err |-> PyNone, obj |-> Instance({"_codes"}, <<>>, codes.l)]
    ELSE [err |-> PyNone, obj |-> Instance({}, <<>>, <<>>)]

\* __init__, lines 61-66: self.data
InitData(data) == IF IsStr(data) THEN data.s ELSE Str(data)

\* __init__, lines 71-79: the colour codes
InitColor(spec, bright, base) ==
    IF Truthy(spec)
    THEN <<color_code(spec, base + (IF bright THEN BASE_BRIGHT_INC ELSE 0))>>
    ELSE <<>>

\* __init__, lines 81-89: the style codes, ValueError for a name not in STYLES
InitStyle(style) ==
    IF Truthy(style)
    THEN LET parts == IF IsStr(style) THEN <<style>> ELSE style.l
         IN [i \in 1..Len(parts) |->
                IF parts[i].t = "str" /\ InSeq(STYLES, parts[i].s)
                THEN PyInt(IndexOf(STYLES, parts[i].s) - 1)
                ELSE PyError("ValueError")]
    ELSE <<>>

FirstError(seq) ==
    IF \E i \in 1..Len(seq) : IsError(seq[i])
    THEN seq[CHOOSE i \in 1..Len(seq) : IsError(seq[i]) /\ \A j \in 1..(i - 1) : ~IsError(seq[j])]
    ELSE PyNone

\* __init__: sets data and _codes on the instance; an exception leaves no value
Styled_init(obj, data, fg, brightfg, bg, brightbg, style) ==
    LET codes == InitColor(fg, brightfg, BASE_FG) \o InitColor(bg, brightbg, BASE_BG)
                 \o InitStyle(style)
    IN IF FirstError(codes) # PyNone
       THEN [err |-> FirstError(codes), obj |-> obj]
       ELSE [err |-> PyNone,
             obj |-> Instance(obj.attrs \cup {"data", "_codes"}, InitData(data), codes)]

\* Styled(data, fg=..., ...): __new__(cls, data, **kwargs), then __init__
Styled_call(data, fg, brightfg, bg, brightbg, style) ==
    LET made == Styled_new(data, PyNone)
    IN IF made.err # PyNone THEN made
       ELSE Styled_init(made.obj, data, fg, brightfg, bg, brightbg, style)

\* self.__class__(text): the call every derived value starts from
Styled_of(text) == Styled_call(PyStr(text), PyNone, FALSE, PyNone, FALSE, PyNone).obj

-----------------------------------------------------------------------------
(* The _codes lists: identities 1..NumLists, an unreferenced list is collected *)

NumLists == 4
ListIds == 1..NumLists

IdsOf(objs) == {o.n : o \in {x \in objs : IsStyled(x)}}
Live == IdsOf({v, recv, arg, res})
FreshId == CHOOSE i \in ListIds : i \notin Live /\ \A j \in ListIds : j < i => j \in Live
Gc(h, objs) == [i \in ListIds |-> IF i \in IdsOf(objs) THEN h[i] ELSE <<>>]

\* the value of a method: what it returns (or raises) and the lists after it
Out(val, h) == [val |-> val, heap |-> h]

\* new_styled._codes = self._codes: the new value holds the receiver's list
SameList(h, self, obj) == Out(PyStyled(obj.data, self.n), h)
\* new_styled._codes = self._codes[:]: the new value holds a new list, a copy
CopiedList(h, self, obj) ==
    Out(PyStyled(obj.data, FreshId), [h EXCEPT ![FreshId] = h[self.n]])

-----------------------------------------------------------------------------
(* class Styled: conversions and comparisons *)

Styled_str(h, self) == str_format(TEMPLATE, <<PyStr(join(h[self.n])), PyStr(self.s)>>)

Styled_int(self) == int_of_str(self.s)

\* the hash of the rendered text instead of the content
Styled_hash_rendered(self) ==
    PyInt(str_hash(str_format(TEMPLATE, <<PyStr(join(heap[self.n])), PyStr(self.s)>>).s))

Styled_hash(self) == PyInt(str_hash(self.s))

Styled_len(self) == PyInt(Len(self.s))

Styled_getnewargs(h, self) == <<PyStr(self.s), PyList(h[self.n])>>

Styled_eq(self, other) ==
    IF ~IsStr(other) THEN PyBool(FALSE)
    ELSE IF IsStyled(other) THEN PyBool(self.s = other.s)
    ELSE PyBool(self.s = other.s)

Styled_lt(self, other) ==
    IF ~IsStr(other) THEN PyError("TypeError")
    ELSE IF IsStyled(other) THEN PyBool(str_lt(self.s, other.s))
    ELSE PyBool(str_lt(self.s, other.s))

\* lines 143, 152, 161 read `self,data`: a tuple whose second item looks up the
\* global name data
Styled_le(self, other) ==
    IF ~IsStr(other) THEN PyError("TypeError")
    ELSE IF IsStyled(other) THEN UndefinedGlobal("data")
    ELSE PyBool(str_le(self.s, other.s))

Styled_gt(self, other) ==
    IF ~IsStr(other) THEN PyError("TypeError")
    ELSE IF IsStyled(other) THEN UndefinedGlobal("data")
    ELSE PyBool(str_lt(other.s, self.s))

Styled_ge(self, other) ==
    IF ~IsStr(other) THEN PyError("TypeError")
    ELSE IF IsStyled(other) THEN UndefinedGlobal("data")
    ELSE PyBool(str_le(other.s, self.s))

\* TEMPLATE.format(*self._codes, self.data.__format__(format_string))
Styled_format(h, self, format_string) ==
    LET inner == str___format__(self.s, format_string.s)
    IN IF IsError(inner) THEN inner
       ELSE str_format(TEMPLATE, h[self.n] \o <<inner>>)

-----------------------------------------------------------------------------
(* class Styled: methods that return a new Styled *)

Styled_getitem(h, self, key) ==
    LET item == str_getitem(self.s, key)
    IN IF IsError(item) THEN Out(item, h)
       ELSE CopiedList(h, self, Styled_of(item.s))

\* self.data % args for a text that holds no conversion specifier (no text of
\* the model holds a '%'): the empty tuple converts, anything else is left over
str_mod(s, args) ==
    IF args.t = "tuple" /\ args.l = <<>> THEN PyStr(s) ELSE PyError("TypeError")

Styled_mod(h, self, args) ==
    LET text == str_mod(self.s, args)
    IN IF IsError(text) THEN Out(text, h)
       ELSE SameList(h, self, Styled_of(text.s))

\* repetition that leaves the new value with the empty list of its construction
Styled_mul_unstyled(h, self, n) ==
    Out(PyStyled(Styled_of(str_mul(self.s, n.n)).data, FreshId), [h EXCEPT ![FreshId] = <<>>])

Styled_mul(h, self, n) == SameList(h, self, Styled_of(str_mul(self.s, n.n)))

Styled_center(h, self, width) == SameList(h, self, Styled_of(str_center(self.s, width.n)))

Styled_lower(h, self) == SameList(h, self, Styled_of(str_lower(self.s)))

Styled_replace(h, self, old, new) ==
    SameList(h, self, Styled_of(str_replace(self.s, old.s, new.s)))

Styled_strip(h, self) == SameList(h, self, Styled_of(str_strip(self.s)))

Styled_upper(h, self) == SameList(h, self, Styled_of(str_upper(self.s)))

Styled_zfill(h, self, width) == SameList(h, self, Styled_of(str_zfill(self.s, width.n)))

\* self.__class__(new_data if new_data else self.data)
Styled_copy(h, self, new_data) ==
    CopiedList(h, self, Styled_of(IF Truthy(new_data) THEN new_data.s ELSE self.s))

-----------------------------------------------------------------------------
(* pickle, as test_pickle uses it: the instance is reduced to               *)
(* (cls, __getnewargs__(), __dict__) and rebuilt by cls.__new__(cls, *args)  *)
(* followed by an update of the new instance's __dict__ with the state      *)

pickle_dumps(h, self) ==
    [args |-> Styled_getnewargs(h, self),
     state |-> Instance({"data", "_codes"}, self.s, h[self.n])]

pickle_loads(p) ==
    LET made == Styled_new(p.args[1], p.args[2])
    IN IF made.err # PyNone THEN made
       ELSE [err |-> PyNone,
             obj |-> Instance(made.obj.attrs \cup p.state.attrs,
                              IF "data" \in p.state.attrs THEN p.state.data
                              ELSE made.obj.data,
                              IF "_codes" \in p.state.attrs THEN p.state.codes
                              ELSE made.obj.codes)]

-----------------------------------------------------------------------------
(* Inputs *)

MaxWidth == 4
MaxRep == 2
MaxSteps == 2

T_empty == <<>>
T_hi == <<"h", "i">>
T_num == <<"-", "1", "2">>
T_pad == <<" ", "a", "B">>
Texts == {T_empty, T_hi, T_num, T_pad}

N_red == <<"r", "e", "d">>
N_cyan == <<" ", "C", "y", "a", "n", " ">>
N_blue == <<"b", "l", "u", "e">>
N_pink == <<"p", "i", "n", "k">>
N_bold == <<"b", "o", "l", "d">>
N_glow == <<"g", "l", "o", "w">>
N_underlined == STYLES[5]
N_blink == STYLES[6]

RGB == PyTuple(<<PyInt(1), PyInt(2), PyInt(3)>>)

FgSpecs == {PyNone, PyStr(DEFAULT), PyStr(N_red), PyStr(N_cyan), PyInt(0), PyInt(5),
            PyInt(255), PyInt(300), PyStr(N_pink), RGB}
BgSpecs == {PyNone, PyStr(N_blue), PyInt(0), PyInt(196)}
StyleSpecs == {PyNone, PyStr(N_bold), PyList(<<PyStr(N_underlined), PyStr(N_blink)>>),
               PyStr(N_glow)}

\* the constructor's keyword arguments
Kw(fg, brightfg, bg, brightbg, style) ==
    [fg |-> fg, brightfg |-> brightfg, bg |-> bg, brightbg |-> brightbg, style |-> style]
AllKw == {Kw(fg, bf, bg, bb, st) : fg \in FgSpecs, bf \in BOOLEAN, bg \in BgSpecs,
                                   bb \in BOOLEAN, st \in StyleSpecs}
\* a few styles: no code, one code, several codes
FewKw == {Kw(PyNone, FALSE, PyNone, FALSE, PyNone),
          Kw(PyStr(N_red), FALSE, PyNone, FALSE, PyNone),
          Kw(PyInt(196), FALSE, PyStr(N_blue), TRUE, PyStr(N_bold))}

FormatSpecs == {PyStr(<<>>), PyStr(<<"4">>), PyStr(<<">", "4">>), PyStr(<<".", "1">>),
                PyStr(<<"x">>)}

Keys == {PyInt(i) : i \in {-1, 0, 2}} \cup {PySlice(0, 1), PySlice(1, MaxWidth)}

-----------------------------------------------------------------------------
(* State *)

Init ==
    /\ pc = "start"
    /\ v = PyNone
    /\ recv = PyNone
    /\ heap = [i \in ListIds |-> <<>>]
    /\ op = "none"
    /\ arg = PyNone
    /\ res = PyNone
    /\ steps = 0

\* the arguments of the constructor call, as a tuple
CallArgs(data, kw) ==
    PyTuple(<<data, kw.fg, PyBool(kw.brightfg), kw.bg, PyBool(kw.brightbg), kw.style>>)

\* v = Styled(data, fg=.., brightfg=.., bg=.., brightbg=.., style=..)
Construct(data, kw) ==
    /\ pc = "start"
    /\ LET made == Styled_call(data, kw.fg, kw.brightfg, kw.bg, kw.brightbg, kw.style)
       IN IF made.err # PyNone
          THEN /\ pc' = "failed"
               /\ res' = made.err
               /\ UNCHANGED <<v, recv, heap>>
          ELSE /\ pc' = "live"
               /\ v' = PyStyled(made.obj.data, 1)
               /\ recv' = PyStyled(made.obj.data, 1)
               /\ heap' = [heap EXCEPT ![1] = made.obj.codes]
               /\ res' = PyNone
    /\ op' = "init"
    /\ arg' = CallArgs(data, kw)
    /\ UNCHANGED steps

\* the Styled values a method can be called on
Receivers == {x \in {v, recv, res} : IsStyled(x)}

\* a method that returns a value that is no Styled, or raises; the caller holds
\* the result until it releases it
Observe(name, self, a, h, result) ==
    /\ pc = "live"
    /\ pc' = "held"
    /\ op' = name
    /\ recv' = self
    /\ arg' = a
    /\ res' = result
    /\ heap' = Gc(h, {v, self, a, result})
    /\ UNCHANGED <<v, steps>>

\* the caller drops the operand and the result of its last call
Release ==
    /\ pc = "held"
    /\ pc' = "live"
    /\ op' = "none"
    /\ arg' = PyNone
    /\ res' = PyNone
    /\ heap' = Gc(heap, {v, recv})
    /\ UNCHANGED <<v, recv, steps>>

\* a method that returns a new Styled, or raises
Derive(name, self, a, out) ==
    /\ pc = "live"
    /\ steps < MaxSteps
    /\ steps' = steps + 1
    /\ op' = name
    /\ recv' = self
    /\ arg' = a
    /\ res' = out.val
    /\ heap' = Gc(out.heap, {v, self, a, out.val})
    /\ UNCHANGED <<pc, v>>

CallStr == \E self \in Receivers :
    Observe("str", self, PyNone, heap, Styled_str(heap, self))

CallFormat == \E self \in Receivers, f \in FormatSpecs :
    Observe("format", self, f, heap, Styled_format(heap, self, f))

CallInt == \E self \in Receivers :
    Observe("int", self, PyNone, heap, Styled_int(self))

CallLen == \E self \in Receivers :
    Observe("len", self, PyNone, heap, Styled_len(self))

CallHash == \E self \in Receivers :
    Observe("hash", self, PyNone, heap, Styled_hash(self))

\* the right operands of a comparison: a plain text, a number, or another Styled
\* (constructed beforehand, its list put on the heap when the call is made)
OtherStyled == {Styled_call(PyStr(t), kw.fg, kw.brightfg, kw.bg, kw.brightbg, kw.style).obj :
                    t \in Texts, kw \in FewKw}
PlainOperands == {PyStr(t) : t \in Texts} \cup {PyInt(5)}

CallEq == \E self \in Receivers :
    \/ \E o \in PlainOperands : Observe("eq", self, o, heap, Styled_eq(self, o))
    \/ \E o \in OtherStyled :
         LET other == PyStyled(o.data, FreshId)
         IN Observe("eq", self, other, [heap EXCEPT ![FreshId] = o.codes],
                    Styled_eq(self, other))

CallLt == \E self \in Receivers :
    \/ \E o \in PlainOperands : Observe("lt", self, o, heap, Styled_lt(self, o))
    \/ \E o \in OtherStyled :
         LET other == PyStyled(o.data, FreshId)
         IN Observe("lt", self, other, [heap EXCEPT ![FreshId] = o.codes],
                    Styled_lt(self, other))

CallLe == \E self \in Receivers :
    \/ \E o \in PlainOperands : Observe("le", self, o, heap, Styled_le(self, o))
    \/ \E o \in OtherStyled :
         LET other == PyStyled(o.data, FreshId)
         IN Observe("le", self, other, [heap EXCEPT ![FreshId] = o.codes],
                    Styled_le(self, other))

CallGt == \E self \in Receivers :
    \/ \E o \in PlainOperands : Observe("gt", self, o, heap, Styled_gt(self, o))
    \/ \E o \in OtherStyled :
         LET other == PyStyled(o.data, FreshId)
         IN Observe("gt", self, other, [heap EXCEPT ![FreshId] = o.codes],
                    Styled_gt(self, other))

CallGe == \E self \in Receivers :
    \/ \E o \in PlainOperands : Observe("ge", self, o, heap, Styled_ge(self, o))
    \/ \E o \in OtherStyled :
         LET other == PyStyled(o.data, FreshId)
         IN Observe("ge", self, other, [heap EXCEPT ![FreshId] = o.codes],
                    Styled_ge(self, other))

\* loaded = pickle.loads(pickle.dumps(self)); an instance left without data or
\* _codes fails on its first use, and is recorded as that AttributeError
CallPickle == \E self \in Receivers :
    LET loaded == pickle_loads(pickle_dumps(heap, self))
    IN IF loaded.err # PyNone
       THEN Observe("pickle", self, PyNone, heap, loaded.err)
       ELSE IF loaded.obj.attrs # {"data", "_codes"}
       THEN Observe("pickle", self, PyNone, heap, PyError("AttributeError"))
       ELSE Observe("pickle", self, PyNone,
                    [heap EXCEPT ![FreshId] = loaded.obj.codes],
                    PyStyled(loaded.obj.data, FreshId))

CallGetItem == \E self \in Receivers, key \in Keys :
    Derive("getitem", self, key, Styled_getitem(heap, self, key))

CallMul == \E self \in Receivers, n \in 0..MaxRep :
    Derive("mul", self, PyInt(n), Styled_mul(heap, self, PyInt(n)))

CallCenter == \E self \in Receivers, w \in 0..MaxWidth :
    Derive("center", self, PyInt(w), Styled_center(heap, self, PyInt(w)))

CallLower == \E self \in Receivers :
    Derive("lower", self, PyNone, Styled_lower(heap, self))

CallReplace == \E self \in Receivers, old \in {<<>>, <<"a">>, <<"h", "i">>}, new \in {<<>>, <<"Z">>} :
    Derive("replace", self, PyTuple(<<PyStr(old), PyStr(new)>>),
           Styled_replace(heap, self, PyStr(old), PyStr(new)))

CallStrip == \E self \in Receivers :
    Derive("strip", self, PyNone, Styled_strip(heap, self))

CallUpper == \E self \in Receivers :
    Derive("upper", self, PyNone, Styled_upper(heap, self))

CallZfill == \E self \in Receivers, w \in 0..MaxWidth :
    Derive("zfill", self, PyInt(w), Styled_zfill(heap, self, PyInt(w)))

CallCopy == \E self \in Receivers, t \in {PyNone} \cup {PyStr(x) : x \in Texts} :
    Derive("copy", self, t, Styled_copy(heap, self, t))

\* one value, constructed from any style, and the methods that read it
Next ==
    \/ \E t \in Texts, kw \in AllKw : Construct(PyStr(t), kw)
    \/ CallStr
    \/ CallFormat
    \/ CallInt
    \/ CallLen
    \/ CallHash
    \/ CallEq
    \/ CallLt
    \/ CallLe
    \/ CallGt
    \/ CallGe
    \/ CallPickle
    \/ Release

Spec == Init /\ [][Next]_vars

\* one value, constructed from a few styles, and chains of the methods that
\* derive new values from it
NextDerive ==
    \/ \E t \in Texts, kw \in FewKw : Construct(PyStr(t), kw)
    \/ CallStr
    \/ CallGetItem
    \/ CallMul
    \/ CallCenter
    \/ CallLower
    \/ CallReplace
    \/ CallStrip
    \/ CallUpper
    \/ CallZfill
    \/ CallCopy
    \/ Release

SpecDerive == Init /\ [][NextDerive]_vars

CallMod == \E self \in Receivers, args \in {PyTuple(<<>>), PyInt(5)} :
    Derive("mod", self, args, Styled_mod(heap, self, args))

\* o._codes.append(code): a code is added to the list a value holds, as __init__
\* adds the codes of a value under construction
CallAppend == \E o \in Receivers, code \in {PyInt(1)} :
    /\ pc = "live"
    /\ steps < MaxSteps
    /\ steps' = steps + 1
    /\ op' = "append"
    /\ arg' = o
    /\ heap' = [heap EXCEPT ![o.n] = Append(@, code)]
    /\ UNCHANGED <<pc, v, recv, res>>

\* the chains of SpecDerive, with % and with changes made to the lists
NextAlias ==
    \/ \E t \in Texts, kw \in FewKw : Construct(PyStr(t), kw)
    \/ CallStr
    \/ CallGetItem
    \/ CallMul
    \/ CallMod
    \/ CallCenter
    \/ CallLower
    \/ CallReplace
    \/ CallStrip
    \/ CallUpper
    \/ CallZfill
    \/ CallCopy
    \/ CallAppend
    \/ Release

SpecAlias == Init /\ [][NextAlias]_vars

-----------------------------------------------------------------------------
(* Properties *)

Codes(o) == heap[o.n]
GivenFg == arg.l[2]
GivenBrightFg == arg.l[3].n = 1
GivenBg == arg.l[4]
GivenBrightBg == arg.l[5].n = 1
Constructed == op = "init" /\ pc = "live"
Txt(n) == IntToStr(n)
SGR(params, content) == <<ESC, "[">> \o params \o <<"m">> \o content \o <<ESC, "[", "0", "m">>
\* the codes written one after the other, each but the first behind a ';'
RECURSIVE Joined(_)
Joined(codes) ==
    IF codes = <<>> THEN <<>>
    ELSE IF Len(codes) = 1 THEN Str(codes[1])
    ELSE Joined(SubSeq(codes, 1, Len(codes) - 1)) \o <<";">> \o Str(codes[Len(codes)])

C2_Render ==
    op = "str" =>
        /\ res = PyStr(SGR(Joined(Codes(recv)), recv.s))
        /\ Codes(recv) = <<>> => res = PyStr(<<ESC, "[", "m">> \o recv.s \o <<ESC, "[", "0", "m">>)

C2_Witness ==
    /\ op = "str"
    /\ Len(Codes(recv)) >= 3
    /\ Codes(recv)[1] = PyStr(<<"3", "8", ";", "5", ";", "2", "5", "5">>)
    /\ recv.s # <<>>

\* C3: a value rebuilt from its pickled form has the content of the original and
\* renders as the original does, also when the codes list is empty.
C3_RoundTrip ==
    op = "pickle" =>
        /\ IsStyled(res)
        /\ res.s = recv.s
        /\ Styled_str(heap, res) = Styled_str(heap, recv)

C3_Witness ==
    /\ op = "pickle"
    /\ IsStyled(res)
    /\ Codes(recv) = <<>>
    /\ res.n # recv.n

\* C4: each of <, <=, >, >= between a Styled and a plain text or another Styled
\* returns the lexicographic comparison of the two contents and never fails.
C4_OrderingTotal ==
    (op \in {"lt", "le", "gt", "ge"} /\ IsStr(arg)) =>
        res = PyBool(CASE op = "lt" -> str_lt(recv.s, arg.s)
                       [] op = "le" -> recv.s = arg.s \/ str_lt(recv.s, arg.s)
                       [] op = "gt" -> str_lt(arg.s, recv.s)
                       [] op = "ge" -> recv.s = arg.s \/ str_lt(arg.s, recv.s))

\* C5: format(v, f) is the content formatted with f, wrapped in the escape and
\* reset that str(v) uses, for any number of codes.
C5_FormatWraps ==
    (op = "format" /\ ~IsError(str___format__(recv.s, arg.s))) =>
        res = PyStr(SGR(Joined(Codes(recv)), str___format__(recv.s, arg.s).s))

\* C6: an integer n in 0..255 given as foreground (background) with the bright
\* flag off puts the code '38;5;n' ('48;5;n') into codes.
InPalette(spec) == spec.t = "int" /\ 0 <= spec.n /\ spec.n <= 255
C6_PaletteCode ==
    Constructed =>
        /\ (InPalette(GivenFg) /\ ~GivenBrightFg) =>
              \E i \in 1..Len(Codes(v)) :
                  Codes(v)[i] = PyStr(<<"3", "8", ";", "5", ";">> \o Txt(GivenFg.n))
        /\ (InPalette(GivenBg) /\ ~GivenBrightBg) =>
              \E i \in 1..Len(Codes(v)) :
                  Codes(v)[i] = PyStr(<<"4", "8", ";", "5", ";">> \o Txt(GivenBg.n))

\* C7: a foreground or background spec that is given and is none of 'default', a
\* colour name, an integer in 0..255 or a sequence makes the construction fail.
ValidColor(spec) ==
    \/ spec.t = "str" /\ str_lower(str_strip(spec.s)) = DEFAULT
    \/ spec.t = "str" /\ InSeq(COLORS, str_lower(str_strip(spec.s)))
    \/ InPalette(spec)
    \/ spec.t \in {"tuple", "list"} /\ Len(spec.l) = 3
Given(spec) == spec # PyNone
C7_InvalidColorFails ==
    (op = "init" /\ ( (Given(GivenFg) /\ ~ValidColor(GivenFg))
                   \/ (Given(GivenBg) /\ ~ValidColor(GivenBg)) )) =>
        (pc = "failed" /\ IsError(res))

\* C8: the bright flag adds 60 for a named colour only: a named colour at index i
\* gives 90+i (100+i for the background) when bright, and 'default' or a palette
\* index give the same code whether the flag is set or not.
IsNamed(spec) == spec.t = "str" /\ InSeq(COLORS, str_lower(str_strip(spec.s)))
IsDefault(spec) == spec.t = "str" /\ str_lower(str_strip(spec.s)) = DEFAULT
ColorIndex(spec) == IndexOf(COLORS, str_lower(str_strip(spec.s))) - 1
ExpectedCode(spec, bright, base) ==
    IF IsNamed(spec) THEN PyStr(Txt(base + (IF bright THEN 60 ELSE 0) + ColorIndex(spec)))
    ELSE IF IsDefault(spec) THEN PyStr(Txt(base + 9))
    ELSE PyStr(Txt(base + 8) \o <<";", "5", ";">> \o Txt(spec.n))
C8_BrightNamedOnly ==
    Constructed =>
        /\ (IsNamed(GivenFg) \/ IsDefault(GivenFg) \/ (InPalette(GivenFg) /\ GivenFg.n # 0)) =>
              Codes(v)[1] = ExpectedCode(GivenFg, GivenBrightFg, 30)
        /\ (IsNamed(GivenBg) \/ IsDefault(GivenBg) \/ (InPalette(GivenBg) /\ GivenBg.n # 0)) =>
              Codes(v)[IF Truthy(GivenFg) THEN 2 ELSE 1] = ExpectedCode(GivenBg, GivenBrightBg, 40)

\* C9: copy(v, t) has content t for every text t, the empty text included, and
\* v's content only when t is omitted; its codes equal v's codes.
C9_CopyContent ==
    op = "copy" =>
        /\ IsStyled(res)
        /\ Codes(res) = Codes(recv)
        /\ arg.t = "str" => res.s = arg.s
        /\ arg = PyNone => res.s = recv.s

\* C10: after any sequence of style-preserving operations starting from v, the
\* value obtained has v's codes, in order, and renders with the escape prefix and
\* the reset suffix of str(v) around its own content.
RenderPrefix(o) ==
    LET r == Styled_str(heap, o).s IN SubSeq(r, 1, Len(r) - 4 - Len(o.s))
RenderSuffix(o) ==
    LET r == Styled_str(heap, o).s IN SubSeq(r, Len(r) - 3, Len(r))
C10_CodesPreserved ==
    pc \in {"live", "held"} =>
        \A o \in Receivers :
            /\ Codes(o) = Codes(v)
            /\ Styled_str(heap, o) = PyStr(RenderPrefix(v) \o o.s \o RenderSuffix(v))

C10_Witness ==
    /\ steps >= 2
    /\ op = "mul"
    /\ arg = PyInt(2)
    /\ IsStyled(res)
    /\ recv.n # v.n
    /\ recv.s # <<>>
    /\ Len(Codes(res)) >= 2
    /\ Len(res.s) = 2 * Len(recv.s)

\* C11: every operation that derives a new value from a value gives the result
\* a code list of its own: the result's list is another list than the
\* receiver's, and a code appended to the list of either of the two leaves the
\* list of the other as it was.
DerivingOps == {"copy", "getitem", "mul", "mod", "upper", "lower", "strip", "center",
                "replace", "zfill"}
JustDerived == op \in DerivingOps /\ IsStyled(res) /\ IsStyled(recv)
C11_NoAliasing ==
    [][JustDerived =>
          /\ res.n # recv.n
          /\ (op' = "append" /\ arg'.n = recv.n) => heap'[res.n] = heap[res.n]
          /\ (op' = "append" /\ arg'.n = res.n) => heap'[recv.n] = heap[recv.n]]_vars

====
